---- MODULE Spec2Model ----
(***************************************************************************)
(* A model of the productivity / factor-shares replication pipeline:       *)
(* the FRED caching client (src/src/fred_client.py), the dataset builder   *)
(* (src/src/build_dataset.py), the stationarity verdict                    *)
(* (src/src/stationarity.py) and the run-all driver (src/src/cli.py).      *)
(*                                                                         *)
(* Floating point values are modelled as exact rationals extended with     *)
(* NaN and the two infinities, with the IEEE-754 rules pandas/numpy follow *)
(* for missing values, division by zero and inf - inf.  Natural logarithms *)
(* are taken from a fixed-point table (three decimals).                    *)
(***************************************************************************)
EXTENDS Integers, Sequences, FiniteSets, TLC

VARIABLES
    command,      \* sys.argv subcommand: "none" or "run-all"
    api_key,      \* TRUE iff FRED_API_KEY is set to a non-empty string
    no_network,   \* the --no-network flag
    cache,        \* cache_dir: partial map series id -> CSV file content
    pc,           \* position of the run
    idx,          \* loop index into SERIES_IDS (get_all_series / validate loop)
    series_data,  \* dict built by get_all_series: partial map id -> table
    requests,     \* log of observation requests sent to the remote service
    error,        \* the exception that aborted the run (kind "none" if none)
    warnings,     \* series ids for which validate_series printed a warning
    merged,       \* result of merge_series
    transformed,  \* result of compute_transformations
    analysis_df,  \* result of the column restriction + dropna + reset_index
    artifacts,    \* names of the files written by this run
    results,      \* regression results (dict key -> record)
    stat_results, \* stationarity results built by run_stationarity_tests
    exit_code,    \* return value of main (-1 while running)
    call          \* the most recent get_series call and what it returned

vars == <<command, api_key, no_network, cache, pc, idx, series_data, requests,
          error, warnings, merged, transformed, analysis_df, artifacts,
          results, stat_results, exit_code, call>>

env == <<command, api_key, no_network>>

-----------------------------------------------------------------------------
(* Bounds of the model *)

\* number of quarterly dates the remote service / the cache knows about
MaxRows == 6

\* number of cells of the four raw series that deviate from the base tables
MaxFaults == 1

-----------------------------------------------------------------------------
(* Floating point values *)

NaN == [k |-> "nan", n |-> 0, d |-> 1]

PosInf == [k |-> "inf", n |-> 1, d |-> 1]

NegInf == [k |-> "inf", n |-> -1, d |-> 1]

Abs(x) == IF x < 0 THEN -x ELSE x

RECURSIVE GCD(_, _)
GCD(a, b) == IF b = 0 THEN a ELSE GCD(b, a % b)

\* the rational n/d (d # 0) in lowest terms with a positive denominator
Rat(n, d) ==
    LET g == GCD(Abs(n), Abs(d))
        s == IF d < 0 THEN -1 ELSE 1
    IN  [k |-> "fin", n |-> (s * n) \div g, d |-> Abs(d) \div g]

Num(i) == Rat(i, 1)

IsNaN(v) == v.k = "nan"

IsInf(v) == v.k = "inf"

IsFin(v) == v.k = "fin"

Sign(v) == IF v.n > 0 THEN 1 ELSE IF v.n < 0 THEN -1 ELSE 0

\* a * b  (IEEE: NaN propagates, 0 * inf = NaN)
Mul(a, b) ==
    IF IsNaN(a) \/ IsNaN(b) THEN NaN
    ELSE IF IsInf(a) \/ IsInf(b)
         THEN IF Sign(a) * Sign(b) = 0 THEN NaN
              ELSE IF Sign(a) * Sign(b) > 0 THEN PosInf ELSE NegInf
         ELSE Rat(a.n * b.n, a.d * b.d)

\* a / b  (IEEE: x/0 = +-inf for x # 0, 0/0 = NaN, inf/inf = NaN)
Div(a, b) ==
    IF IsNaN(a) \/ IsNaN(b) THEN NaN
    ELSE IF IsInf(a)
         THEN IF IsInf(b) THEN NaN
              ELSE IF Sign(a) * (IF Sign(b) < 0 THEN -1 ELSE 1) > 0
                   THEN PosInf ELSE NegInf
         ELSE IF IsInf(b) THEN Num(0)
         ELSE IF b.n = 0
              THEN IF a.n = 0 THEN NaN
                   ELSE IF a.n > 0 THEN PosInf ELSE NegInf
              ELSE Rat(a.n * b.d, a.d * b.n)

\* a - b  (IEEE: inf - inf = NaN)
Sub(a, b) ==
    IF IsNaN(a) \/ IsNaN(b) THEN NaN
    ELSE IF IsInf(a)
         THEN IF IsInf(b) /\ Sign(a) = Sign(b) THEN NaN ELSE a
         ELSE IF IsInf(b) THEN (IF Sign(b) > 0 THEN NegInf ELSE PosInf)
         ELSE Rat(a.n * b.d - b.n * a.d, a.d * b.d)

\* round(1000 * ln(x)) for the integers 100 .. 112
LnMilli == <<4605, 4615, 4625, 4635, 4644, 4654, 4663, 4673, 4682, 4691,
             4700, 4710, 4718>>

\* np.log: NaN for NaN and negative arguments, -inf at 0
Ln(v) ==
    IF IsNaN(v) THEN NaN
    ELSE IF IsInf(v) THEN (IF Sign(v) > 0 THEN PosInf ELSE NaN)
    ELSE IF v.n < 0 THEN NaN
    ELSE IF v.n = 0 THEN NegInf
    ELSE Rat(LnMilli[v.n - 99], 1000)

-----------------------------------------------------------------------------
(* Series identifiers *)

\* SERIES_IDS, in the insertion order of the dict
SeriesOrder == <<"OPHNFB", "GDP", "CPROFIT", "COE">>

SERIES_IDS == {SeriesOrder[i] : i \in 1..Len(SeriesOrder)}

-----------------------------------------------------------------------------
(* Tables (DataFrames): sequences of rows; a row maps "index" to its row   *)
(* label, "date" to a day number and every other column to a value.        *)

\* reset_index(drop=True): the rows of T in order, relabelled 0 .. Len(T)-1
ResetIndex(T) ==
    [i \in 1..Len(T) |->
        [c \in DOMAIN T[i] |-> IF c = "index" THEN i - 1 ELSE T[i][c]]]

Dates(T) == {T[i]["date"] : i \in 1..Len(T)}

RECURSIVE SetToSortedSeq(_)
SetToSortedSeq(S) ==
    IF S = {} THEN <<>>
    ELSE LET m == CHOOSE x \in S : \A y \in S : x <= y
         IN  <<m>> \o SetToSortedSeq(S \ {m})

\* T with row r inserted after the last row whose date is <= r's date
RECURSIVE InsertByDate(_, _)
InsertByDate(T, r) ==
    IF T = <<>> THEN <<r>>
    ELSE IF T[Len(T)]["date"] <= r["date"] THEN Append(T, r)
    ELSE Append(InsertByDate(SubSeq(T, 1, Len(T) - 1), r), T[Len(T)])

\* DataFrame.sort_values("date"): a stable sort, row labels kept
RECURSIVE SortByDate(_)
SortByDate(T) ==
    IF T = <<>> THEN <<>>
    ELSE InsertByDate(SortByDate(SubSeq(T, 1, Len(T) - 1)), T[Len(T)])

\* the value of column c in the row of T dated d, NaN when T has no such row
Lookup(T, d, c) ==
    IF d \in Dates(T)
    THEN T[CHOOSE i \in 1..Len(T) : T[i]["date"] = d][c]
    ELSE NaN

\* merge with how="inner": only the dates both tables have
InnerMerge(left, lcols, right, s) ==
    LET keys == SetToSortedSeq(Dates(left) \cap Dates(right))
    IN  [i \in 1..Len(keys) |->
            [c \in {"index", "date"} \cup lcols \cup {s} |->
                IF c = "index" THEN i - 1
                ELSE IF c = "date" THEN keys[i]
                ELSE IF c = s THEN Lookup(right, keys[i], s)
                ELSE Lookup(left, keys[i], c)]]

\* left.merge(right, on="date", how="outer") for tables with duplicate-free
\* dates: one row per date of either table, keys in sorted order, a fresh
\* RangeIndex; lcols are the value columns of left, s the one of right
OuterMerge(left, lcols, right, s) ==
    LET keys == SetToSortedSeq(Dates(left) \cup Dates(right))
    IN  [i \in 1..Len(keys) |->
            [c \in {"index", "date"} \cup lcols \cup {s} |->
                IF c = "index" THEN i - 1
                ELSE IF c = "date" THEN keys[i]
                ELSE IF c = s THEN Lookup(right, keys[i], s)
                ELSE Lookup(left, keys[i], c)]]

\* the loop of merge_series over dfs[1:], j the position in the dict
RECURSIVE MergeFrom(_, _, _)
MergeFrom(acc, sd, j) ==
    IF j > Len(SeriesOrder) THEN acc
    ELSE MergeFrom(OuterMerge(acc, {SeriesOrder[i] : i \in 1..(j - 1)},
                              sd[SeriesOrder[j]], SeriesOrder[j]),
                   sd, j + 1)

merge_series(sd) ==
    ResetIndex(SortByDate(MergeFrom(sd[SeriesOrder[1]], sd, 2)))

-----------------------------------------------------------------------------
(* compute_transformations *)

\* the lag of the year-over-year columns, in rows
YoyLag == 4

\* shift(lag, fill_value=0): zero where there is no earlier row
ShiftFillZero(T, c, i, lag) == IF i - lag >= 1 THEN T[i - lag][c] ELSE Num(0)

\* Series.shift(lag) at position i (1-based) of column c: the value lag
\* rows earlier, a missing value where there is no such row
Shift(T, c, i, lag) == IF i - lag >= 1 THEN T[i - lag][c] ELSE NaN

\* the log difference to the previous quarter instead of the previous year
ProdQoq(T, i) ==
    Mul(Num(100), Sub(Ln(T[i]["OPHNFB"]),
                      Ln(IF i - 1 >= 1 THEN T[i - 1]["OPHNFB"] ELSE NaN)))

\* 100 * (np.log(OPHNFB) - np.log(OPHNFB.shift(4))) at position i
ProdYoy(T, i) ==
    Mul(Num(100), Sub(Ln(T[i]["OPHNFB"]), Ln(Shift(T, "OPHNFB", i, YoyLag))))

\* the share as a fraction instead of a percentage
ShareFraction(T, c, i) == Div(T[i][c], T[i]["GDP"])

\* 100 * T[c] / T["GDP"] at position i
SharePct(T, c, i) == Div(Mul(Num(100), T[i][c]), T[i]["GDP"])

\* T[c] - T[c].shift(4) at position i
DeltaYoy(T, c, i) == Sub(T[i][c], Shift(T, c, i, YoyLag))

DerivedCols == {"prod_yoy_pct", "profit_share_pct", "wage_share_pct",
                "d_profit_share_yoy_pp", "d_wage_share_yoy_pp"}

\* T with column c set to col (a sequence of values, one per row)
WithColumn(T, c, col) ==
    [i \in 1..Len(T) |->
        [x \in DOMAIN T[i] \cup {c} |-> IF x = c THEN col[i] ELSE T[i][x]]]

\* the transformations computed after the rows with a missing raw value
\* have been dropped: lags become positions among the remaining rows
compute_transformations_after_dropna(df) ==
    LET Keep(r) == \A c \in DOMAIN r \ {"index", "date"} : r[c].k # "nan"
        d  == SelectSeq(df, Keep)
        r1 == WithColumn(d, "prod_yoy_pct",
                  [i \in 1..Len(d) |-> ProdYoy(d, i)])
        r2 == WithColumn(r1, "profit_share_pct",
                  [i \in 1..Len(d) |-> SharePct(r1, "CPROFIT", i)])
        r3 == WithColumn(r2, "wage_share_pct",
                  [i \in 1..Len(d) |-> SharePct(r2, "COE", i)])
        r4 == WithColumn(r3, "d_profit_share_yoy_pp",
                  [i \in 1..Len(d) |-> DeltaYoy(r3, "profit_share_pct", i)])
    IN  WithColumn(r4, "d_wage_share_yoy_pp",
                  [i \in 1..Len(d) |-> DeltaYoy(r4, "wage_share_pct", i)])

compute_transformations(df) ==
    LET r1 == WithColumn(df, "prod_yoy_pct",
                  [i \in 1..Len(df) |-> ProdYoy(df, i)])
        r2 == WithColumn(r1, "profit_share_pct",
                  [i \in 1..Len(df) |-> SharePct(r1, "CPROFIT", i)])
        r3 == WithColumn(r2, "wage_share_pct",
                  [i \in 1..Len(df) |-> SharePct(r2, "COE", i)])
        r4 == WithColumn(r3, "d_profit_share_yoy_pp",
                  [i \in 1..Len(df) |-> DeltaYoy(r3, "profit_share_pct", i)])
    IN  WithColumn(r4, "d_wage_share_yoy_pp",
                  [i \in 1..Len(df) |-> DeltaYoy(r4, "wage_share_pct", i)])

-----------------------------------------------------------------------------
(* The final selection of build_analysis_dataset *)

output_cols == {"date", "prod_yoy_pct", "d_wage_share_yoy_pp",
                "wage_share_pct", "d_profit_share_yoy_pp", "profit_share_pct"}

\* pandas isna on a cell: dates are never NaT here, infinities are not missing
IsMissing(r, c) == IF c \in {"date", "index"} THEN FALSE ELSE IsNaN(r[c])

\* T[cols]: the columns cols, the row labels kept
SelectCols(T, cols) ==
    [i \in 1..Len(T) |-> [c \in cols \cup {"index"} |-> T[i][c]]]

\* dropna(how="all"): only the rows in which every column is missing go
DropNaAll(T) ==
    LET Keep(r) == \E c \in DOMAIN r \ {"index"} :
                       c = "date" \/ r[c].k # "nan"
    IN  SelectSeq(T, Keep)

\* DataFrame.dropna(): the rows without a missing value, labels kept
DropNa(T) ==
    LET Keep(r) == \A c \in DOMAIN r : ~IsMissing(r, c)
    IN  SelectSeq(T, Keep)

\* the selection without dropna
AnalysisKeepMissing(T) ==
    [i \in 1..Len(T) |->
        [c \in output_cols \cup {"index"} |->
            IF c = "index" THEN i - 1 ELSE T[i][c]]]

\* transformed[output_cols].dropna().reset_index(drop=True)
AnalysisOf(T) == ResetIndex(DropNa(SelectCols(T, output_cols)))

-----------------------------------------------------------------------------
(* The series the remote service and the cache can hold.  The base tables  *)
(* are those of tests/test_smoke.py; a fault removes one observation of a  *)
(* series or replaces its value by a missing value or by zero.             *)

\* the day number of the i-th quarterly date
DateOf(i) == 91 * (i - 1)

\* the base value of series s at the i-th date
BaseValue(s, i) ==
    CASE s = "OPHNFB"  -> 100 + (i - 1) + (IF i > 4 THEN 1 ELSE 0)
      [] s = "GDP"     -> 1000
      [] s = "CPROFIT" -> 100 + 10 * (i - 1)
      [] s = "COE"     -> 500 + 10 * (i - 1)

FaultKinds == {"absent", "nan", "zero"}

Faults(n) == [s : SERIES_IDS, i : 1..n, kind : FaultKinds]

\* the sets of at most m faults over n dates
RECURSIVE FaultSets(_, _)
FaultSets(n, m) ==
    IF m = 0 THEN {{}}
    ELSE LET P == FaultSets(n, m - 1)
         IN  P \cup {p \cup {f} : p \in P, f \in Faults(n)}

Has(F, s, i, kind) == [s |-> s, i |-> i, kind |-> kind] \in F

\* a table of one series as the client returns it: columns date and s
MkTable(s, rows) ==
    [j \in 1..Len(rows) |->
        [c \in {"index", "date", s} |->
            IF c = "index" THEN j - 1
            ELSE IF c = "date" THEN rows[j][1]
            ELSE rows[j][2]]]

\* series s over the first n dates under the faults F
SeriesTable(s, n, F) ==
    LET Present(i) == ~Has(F, s, i, "absent")
        Val(i) == IF Has(F, s, i, "nan") THEN NaN
                  ELSE IF Has(F, s, i, "zero") THEN Num(0)
                  ELSE Num(BaseValue(s, i))
        all == [i \in 1..n |-> <<DateOf(i), Val(i), Present(i)>>]
        Keep(r) == r[3]
    IN  MkTable(s, SelectSeq(all, Keep))

-----------------------------------------------------------------------------
(* The cache files: CSV text, a missing value written as an empty field *)

Blank == [k |-> "blank", n |-> 0, d |-> 1]

\* df.to_csv(cache_path, index=False)
ToCsv(T, s) ==
    [i \in 1..Len(T) |->
        [date |-> T[i]["date"],
         field |-> IF IsNaN(T[i][s]) THEN Blank ELSE T[i][s]]]

\* pd.read_csv(cache_path) and the date conversion of _load_from_cache
ReadCsv(F, s) ==
    MkTable(s, [i \in 1..Len(F) |->
                   <<F[i].date, IF F[i].field = Blank THEN NaN ELSE F[i].field>>])

-----------------------------------------------------------------------------
(* FREDClient *)

NoError == [kind |-> "none", series |-> "none"]

Err(kind, s) == [kind |-> kind, series |-> s]

\* the file system after writing file f with content x
WriteFile(c, f, x) == [g \in DOMAIN c \cup {f} |-> IF g = f THEN x ELSE c[g]]

_is_cached(c, s) == s \in DOMAIN c

_load_from_cache(c, s) == ReadCsv(c[s], s)

\* get_series without the no_network branch: a miss goes to the network
get_series_fallback(c, nn, reqs, s, force_refresh, resp) ==
    IF s \in DOMAIN c /\ ~force_refresh
    THEN [err |-> [kind |-> "none", series |-> "none"],
          df |-> ReadCsv(c[s], s), cache |-> c, requests |-> reqs]
    ELSE IF ~resp.ok
    THEN [err |-> [kind |-> "FetchError", series |-> s], df |-> <<>>,
          cache |-> c, requests |-> Append(reqs, s)]
    ELSE [err |-> [kind |-> "none", series |-> "none"], df |-> resp.table,
          cache |-> [g \in DOMAIN c \cup {s} |->
                        IF g = s THEN ToCsv(resp.table, s) ELSE c[g]],
          requests |-> Append(reqs, s)]

\* get_series sending the request a second time when the first one fails
get_series_retry(c, nn, reqs, s, force_refresh, resp) ==
    IF s \in DOMAIN c /\ (~force_refresh \/ nn)
    THEN [err |-> [kind |-> "none", series |-> "none"],
          df |-> ReadCsv(c[s], s), cache |-> c, requests |-> reqs]
    ELSE IF nn
    THEN [err |-> [kind |-> "CacheMiss", series |-> s], df |-> <<>>,
          cache |-> c, requests |-> reqs]
    ELSE IF ~resp.ok
    THEN [err |-> [kind |-> "FetchError", series |-> s], df |-> <<>>,
          cache |-> c, requests |-> Append(Append(reqs, s), s)]
    ELSE [err |-> [kind |-> "none", series |-> "none"], df |-> resp.table,
          cache |-> [g \in DOMAIN c \cup {s} |->
                        IF g = s THEN ToCsv(resp.table, s) ELSE c[g]],
          requests |-> Append(reqs, s)]

\* get_series without the write to the cache after a fetch
get_series_no_save(c, nn, reqs, s, force_refresh, resp) ==
    IF s \in DOMAIN c /\ (~force_refresh \/ nn)
    THEN [err |-> [kind |-> "none", series |-> "none"],
          df |-> ReadCsv(c[s], s), cache |-> c, requests |-> reqs]
    ELSE IF nn
    THEN [err |-> [kind |-> "CacheMiss", series |-> s], df |-> <<>>,
          cache |-> c, requests |-> reqs]
    ELSE IF ~resp.ok
    THEN [err |-> [kind |-> "FetchError", series |-> s], df |-> <<>>,
          cache |-> c, requests |-> Append(reqs, s)]
    ELSE [err |-> [kind |-> "none", series |-> "none"], df |-> resp.table,
          cache |-> c, requests |-> Append(reqs, s)]

\* get_series on cache c with the request log reqs; resp is what the remote
\* service answers if it is asked.  The outcome: the returned table or the
\* exception raised, the cache and the request log afterwards.
get_series(c, nn, reqs, s, force_refresh, resp) ==
    IF _is_cached(c, s) /\ ~force_refresh
    THEN [err |-> NoError, df |-> _load_from_cache(c, s),
          cache |-> c, requests |-> reqs]
    ELSE IF nn
    THEN IF _is_cached(c, s)
         THEN [err |-> NoError, df |-> _load_from_cache(c, s),
               cache |-> c, requests |-> reqs]
         ELSE [err |-> Err("CacheMiss", s), df |-> <<>>,
               cache |-> c, requests |-> reqs]
    ELSE IF ~resp.ok
    THEN [err |-> Err("FetchError", s), df |-> <<>>,
          cache |-> c, requests |-> Append(reqs, s)]
    ELSE [err |-> NoError, df |-> resp.table,
          cache |-> WriteFile(c, s, ToCsv(resp.table, s)),
          requests |-> Append(reqs, s)]

\* the record of a get_series call: its arguments, the exception it raised
\* (NoError if none) and the table it returned
NoCall == [series |-> "none", force_refresh |-> FALSE, err |-> NoError,
           df |-> <<>>]

CallOf(s, force_refresh, o) ==
    [series |-> s, force_refresh |-> force_refresh, err |-> o.err,
     df |-> o.df]

RECURSIVE InsertInt(_, _)
InsertInt(xs, x) ==
    IF xs = <<>> THEN <<x>>
    ELSE IF xs[Len(xs)] <= x THEN Append(xs, x)
    ELSE Append(InsertInt(SubSeq(xs, 1, Len(xs) - 1), x), xs[Len(xs)])

RECURSIVE SortInts(_)
SortInts(xs) ==
    IF xs = <<>> THEN <<>>
    ELSE InsertInt(SortInts(SubSeq(xs, 1, Len(xs) - 1)), xs[Len(xs)])

\* twice the median of a non-empty sequence of integers
Median2(xs) ==
    LET ys == SortInts(xs)
        n  == Len(ys)
    IN  IF n % 2 = 1 THEN 2 * ys[(n + 1) \div 2]
        ELSE ys[n \div 2] + ys[n \div 2 + 1]

\* df["date"].diff().dropna(), in days
DateDiffs(T) == [i \in 1..(Len(T) - 1) |-> T[i + 1]["date"] - T[i]["date"]]

ExpectedQuarterly == 91

SpacingTolerance == 10

\* validate_series warning already at a deviation of exactly the tolerance
validate_series_inclusive(df, s) ==
    IF df = <<>> THEN "EmptySeries"
    ELSE IF \A i \in 1..Len(df) : df[i][s].k = "nan" THEN "AllMissing"
    ELSE IF DateDiffs(df) # <<>>
            /\ Abs(Median2(DateDiffs(df)) - 2 * ExpectedQuarterly)
                   >= 2 * SpacingTolerance
         THEN "warn"
         ELSE "ok"

\* validate_series without the all-missing check
validate_series_lenient(df, s) == IF df = <<>> THEN "EmptySeries" ELSE "ok"

\* validate_series: the exception it raises, or "warn" / "ok"
validate_series(df, s) ==
    IF df = <<>> THEN "EmptySeries"
    ELSE IF \A i \in 1..Len(df) : IsNaN(df[i][s]) THEN "AllMissing"
    ELSE IF DateDiffs(df) # <<>>
            /\ Abs(Median2(DateDiffs(df)) - 2 * ExpectedQuarterly)
                   > 2 * SpacingTolerance
         THEN "warn"
         ELSE "ok"

-----------------------------------------------------------------------------
(* The run-all pipeline: main -> run_all -> build_analysis_dataset -> ...  *)

EmptyMap == [x \in {} |-> x]

\* the tables a cache file or a remote answer can hold for series s:
\* 1 the base table, 2 every value missing, 3 the first observation absent,
\* 4 the last observation absent
SampleIds == 1..4

SampleTable(s, j) ==
    CASE j = 1 -> SeriesTable(s, MaxRows, {})
      [] j = 2 -> SeriesTable(s, MaxRows,
                      {[s |-> s, i |-> i, kind |-> "nan"] : i \in 1..MaxRows})
      [] j = 3 -> SeriesTable(s, MaxRows, {[s |-> s, i |-> 1, kind |-> "absent"]})
      [] j = 4 -> SeriesTable(s, MaxRows,
                      {[s |-> s, i |-> MaxRows, kind |-> "absent"]})

\* what the remote service can answer to an observations request: a failure
\* (connection error, time-out, HTTP error status, no observations) or a table
Responses(s) ==
    {[ok |-> FALSE, table |-> <<>>]}
        \cup {[ok |-> TRUE, table |-> SampleTable(s, j)] : j \in SampleIds}

\* the cache directories a run can start from: per series no file, a file
\* with a header only, or a file holding one of the sample tables
CacheStates ==
    {[s \in {x \in SERIES_IDS : ch[x] >= 0} |->
         IF ch[s] = 0 THEN <<>> ELSE ToCsv(SampleTable(s, ch[s]), s)] :
     ch \in [SERIES_IDS -> {-1, 0} \cup SampleIds]}

InitRun ==
    /\ pc = "start"
    /\ idx = 1
    /\ series_data = EmptyMap
    /\ requests = <<>>
    /\ error = NoError
    /\ warnings = {}
    /\ merged = <<>>
    /\ transformed = <<>>
    /\ analysis_df = <<>>
    /\ artifacts = {}
    /\ results = EmptyMap
    /\ stat_results = EmptyMap
    /\ exit_code = -1
    /\ call = NoCall

Init ==
    /\ command \in {"none", "run-all"}
    /\ api_key \in BOOLEAN
    /\ no_network \in BOOLEAN
    /\ cache \in CacheStates
    /\ InitRun

\* an uncaught exception e: the traceback ends the process with status 1
Raise(e) ==
    /\ error' = e
    /\ pc' = "aborted"
    /\ exit_code' = 1

\* main returning 0 after printing the help
MainHelpReturnsZero ==
    /\ pc = "start"
    /\ IF command = "none"
       THEN pc' = "exited" /\ exit_code' = 0
       ELSE pc' = "client_init" /\ exit_code' = exit_code
    /\ UNCHANGED <<command, api_key, no_network, call, cache, idx,
                   series_data, requests, error, warnings, merged,
                   transformed, analysis_df, artifacts, results, stat_results>>

\* main: parse the arguments and dispatch
Main ==
    /\ pc = "start"
    /\ IF command = "none"
       THEN pc' = "exited" /\ exit_code' = 1
       ELSE pc' = "client_init" /\ exit_code' = exit_code
    /\ UNCHANGED <<env, call, cache, idx, series_data,
                   requests, error, warnings, merged, transformed,
                   analysis_df, artifacts, results, stat_results>>

\* the credential check with the network flag inverted
MissingCredentialInverted(key, nn) == ~key /\ nn

\* the credential check of FREDClient.__init__
MissingCredential(key, nn) == ~key /\ ~nn

\* FREDClient.__init__
ClientInit ==
    /\ pc = "client_init"
    /\ IF MissingCredential(api_key, no_network)
       THEN Raise(Err("ConfigError", "none"))
       ELSE pc' = "client_ready" /\ UNCHANGED <<error, exit_code>>
    /\ UNCHANGED <<env, call, cache, idx, series_data,
                   requests, warnings, merged, transformed, analysis_df,
                   artifacts, results, stat_results>>

\* one iteration of the loop of get_all_series
GetSeries ==
    /\ pc = "client_ready"
    /\ \E resp \in Responses(SeriesOrder[idx]) :
         LET s == SeriesOrder[idx]
             o == get_series(cache, no_network, requests, s, FALSE, resp)
         IN  /\ cache' = o.cache
             /\ call' = CallOf(s, FALSE, o)
             /\ requests' = o.requests
             /\ IF o.err # NoError
                THEN Raise(o.err) /\ UNCHANGED <<series_data, idx>>
                ELSE /\ series_data' = WriteFile(series_data, s, o.df)
                     /\ IF idx = Len(SeriesOrder)
                        THEN pc' = "validate" /\ idx' = 1
                        ELSE pc' = pc /\ idx' = idx + 1
                     /\ UNCHANGED <<error, exit_code>>
    /\ UNCHANGED <<env, warnings, merged,
                   transformed, analysis_df, artifacts, results, stat_results>>

\* one iteration of the validation loop of build_analysis_dataset
ValidateSeries ==
    /\ pc = "validate"
    /\ LET s == SeriesOrder[idx]
           v == validate_series(series_data[s], s)
       IN  IF v \in {"EmptySeries", "AllMissing"}
           THEN Raise(Err(v, s)) /\ UNCHANGED <<warnings, idx>>
           ELSE /\ warnings' = IF v = "warn" THEN warnings \cup {s} ELSE warnings
                /\ IF idx = Len(SeriesOrder)
                   THEN pc' = "merge" /\ idx' = 1
                   ELSE pc' = pc /\ idx' = idx + 1
                /\ UNCHANGED <<error, exit_code>>
    /\ UNCHANGED <<env, call, cache, series_data, requests,
                   merged, transformed, analysis_df, artifacts, results,
                   stat_results>>

MergeSeries ==
    /\ pc = "merge"
    /\ merged' = merge_series(series_data)
    /\ pc' = "transform"
    /\ UNCHANGED <<env, call, cache, idx, series_data,
                   requests, error, warnings, transformed, analysis_df,
                   artifacts, results, stat_results, exit_code>>

\* compute_transformations working on the caller's table instead of a copy
ComputeTransformationsInPlace ==
    /\ pc = "transform"
    /\ transformed' = compute_transformations(merged)
    /\ merged' = transformed'
    /\ pc' = "select"
    /\ UNCHANGED <<command, api_key, no_network, call, cache, idx,
                   series_data, requests, error, warnings, analysis_df,
                   artifacts, results, stat_results, exit_code>>

ComputeTransformations ==
    /\ pc = "transform"
    /\ transformed' = compute_transformations(merged)
    /\ pc' = "select"
    /\ UNCHANGED <<env, call, cache, idx, series_data,
                   requests, error, warnings, merged, analysis_df,
                   artifacts, results, stat_results, exit_code>>

\* the selection of the output columns, dropna, reset_index and to_csv
WriteDataset ==
    /\ pc = "select"
    /\ analysis_df' = AnalysisOf(transformed)
    /\ artifacts' = artifacts \cup {"dshares_vs_prod.csv"}
    /\ pc' = "regress"
    /\ UNCHANGED <<env, call, cache, idx, series_data,
                   requests, error, warnings, merged, transformed,
                   results, stat_results, exit_code>>

\* the column c of T as an array
Column(T, c) == [i \in 1..Len(T) |-> T[i][c]]

\* the HAC truncation lag run_all asks for
RunAllMaxLags == 4

\* the fields of a RegressionResult that do not come out of the fit itself
fit_ols_hac(x, y, maxlags, dependent_var) ==
    [dependent_var |-> dependent_var, n_obs |-> Len(x), maxlags |-> maxlags,
     x |-> x, y |-> y]

\* run_regressions labelling both results with the profit-share variable
run_regressions_same_label(df, maxlags) ==
    [profit |-> [dependent_var |-> "d_profit_share_yoy_pp",
                 n_obs |-> Len(df), maxlags |-> maxlags,
                 x |-> [i \in 1..Len(df) |-> df[i]["prod_yoy_pct"]],
                 y |-> [i \in 1..Len(df) |-> df[i]["d_profit_share_yoy_pp"]]],
     wage   |-> [dependent_var |-> "d_profit_share_yoy_pp",
                 n_obs |-> Len(df), maxlags |-> maxlags,
                 x |-> [i \in 1..Len(df) |-> df[i]["prod_yoy_pct"]],
                 y |-> [i \in 1..Len(df) |-> df[i]["d_wage_share_yoy_pp"]]]]

run_regressions(df, maxlags) ==
    LET x == Column(df, "prod_yoy_pct")
    IN  [profit |-> fit_ols_hac(x, Column(df, "d_profit_share_yoy_pp"),
                                maxlags, "d_profit_share_yoy_pp"),
         wage   |-> fit_ols_hac(x, Column(df, "d_wage_share_yoy_pp"),
                                maxlags, "d_wage_share_yoy_pp")]

\* run_regressions(df, maxlags=4).  With fewer than two observations the
\* fit is outside the library's contract: it may raise or return.
RunRegressions ==
    /\ pc = "regress"
    /\ \/ /\ results' = run_regressions(analysis_df, RunAllMaxLags)
          /\ pc' = "export"
          /\ UNCHANGED <<error, exit_code>>
       \/ /\ Len(analysis_df) < 2
          /\ Raise(Err("LibraryError", "none"))
          /\ UNCHANGED results
    /\ UNCHANGED <<env, call, cache, idx, series_data,
                   requests, warnings, merged, transformed, analysis_df,
                   artifacts, stat_results>>

RegressionFiles == {"regression_summary.json", "regression_summary.csv"}

\* export_results
ExportResults ==
    /\ pc = "export"
    /\ artifacts' = artifacts \cup RegressionFiles
    /\ pc' = "plots"
    /\ UNCHANGED <<env, call, cache, idx, series_data,
                   requests, error, warnings, merged, transformed,
                   analysis_df, results, stat_results, exit_code>>

FigureFiles == {"scatter_profit_share.png", "scatter_wage_share.png",
                "scatter_combined.png", "binscatter_profit_share.png",
                "binscatter_wage_share.png", "binscatter_combined.png"}

BinscatterFiles == {"binscatter_profit.csv", "binscatter_wage.csv"}

\* create_all_plots
CreateAllPlots ==
    /\ pc = "plots"
    /\ artifacts' = artifacts \cup FigureFiles \cup BinscatterFiles
    /\ pc' = "complete"
    /\ UNCHANGED <<env, call, cache, idx, series_data,
                   requests, error, warnings, merged, transformed,
                   analysis_df, results, stat_results, exit_code>>

\* run_all returns and main returns 0
Complete ==
    /\ pc = "complete"
    /\ exit_code' = 0
    /\ pc' = "exited"
    /\ UNCHANGED <<env, call, cache, idx, series_data,
                   requests, error, warnings, merged, transformed,
                   analysis_df, artifacts, results, stat_results>>

Next ==
    \/ Main
    \/ ClientInit
    \/ GetSeries
    \/ ValidateSeries
    \/ MergeSeries
    \/ ComputeTransformations
    \/ WriteDataset
    \/ RunRegressions
    \/ ExportResults
    \/ CreateAllPlots
    \/ Complete

Spec == Init /\ [][Next]_vars

-----------------------------------------------------------------------------
(* The dataset builder on its own: build_analysis_dataset from the point   *)
(* where the four series have been obtained (in cache-only mode) and       *)
(* validated, over every input within the fault bound.                     *)

Validated(sd) ==
    \A s \in SERIES_IDS : validate_series(sd[s], s) \in {"ok", "warn"}

InitData ==
    /\ command = "run-all"
    /\ api_key = FALSE
    /\ no_network = TRUE
    /\ \E n \in 1..MaxRows : \E F \in FaultSets(n, MaxFaults) :
         /\ series_data = [s \in SERIES_IDS |-> SeriesTable(s, n, F)]
         /\ Validated(series_data)
         /\ cache = [s \in SERIES_IDS |-> ToCsv(series_data[s], s)]
         /\ warnings = {s \in SERIES_IDS :
                            validate_series(series_data[s], s) = "warn"}
    /\ pc = "merge"
    /\ idx = 1
    /\ requests = <<>>
    /\ error = NoError
    /\ merged = <<>>
    /\ transformed = <<>>
    /\ analysis_df = <<>>
    /\ artifacts = {}
    /\ results = EmptyMap
    /\ stat_results = EmptyMap
    /\ exit_code = -1
    /\ call = NoCall

NextData ==
    \/ MergeSeries
    \/ ComputeTransformations
    \/ WriteDataset

SpecData == InitData /\ [][NextData]_vars

-----------------------------------------------------------------------------
(* merge_series on its own, over series whose date sets overlap partially: *)
(* every series independently lacks one observation, or has one           *)
(* observation without a value, or is complete.                            *)

\* the fault sets with at most one "absent" or "nan" fault per series
OverlapFaultSets(n) ==
    {{[s |-> s, i |-> IF d[s] > n THEN d[s] - n ELSE d[s],
       kind |-> IF d[s] > n THEN "nan" ELSE "absent"] :
          s \in {x \in SERIES_IDS : d[x] > 0}} :
     d \in [SERIES_IDS -> 0..(2 * n)]}

InitMerge ==
    /\ command = "run-all"
    /\ api_key = FALSE
    /\ no_network = TRUE
    /\ \E F \in OverlapFaultSets(MaxRows) :
         /\ series_data = [s \in SERIES_IDS |-> SeriesTable(s, MaxRows, F)]
         /\ Validated(series_data)
         /\ cache = [s \in SERIES_IDS |-> ToCsv(series_data[s], s)]
         /\ warnings = {s \in SERIES_IDS :
                            validate_series(series_data[s], s) = "warn"}
    /\ pc = "merge"
    /\ idx = 1
    /\ requests = <<>>
    /\ error = NoError
    /\ merged = <<>>
    /\ transformed = <<>>
    /\ analysis_df = <<>>
    /\ artifacts = {}
    /\ results = EmptyMap
    /\ stat_results = EmptyMap
    /\ exit_code = -1
    /\ call = NoCall

NextMerge == MergeSeries

SpecMerge == InitMerge /\ [][NextMerge]_vars

-----------------------------------------------------------------------------
(* The client on its own: a caller constructs a FREDClient and calls       *)
(* get_series for any series and either value of force_refresh; an         *)
(* exception is caught by the caller, who may call again.                  *)

\* number of get_series calls the caller makes
MaxCalls == 2

\* the cache directories the caller starts from: per series no file or a
\* file holding the base table (other contents get there by a fetch)
ClientCacheStates ==
    {[s \in S |-> ToCsv(SampleTable(s, 1), s)] : S \in SUBSET SERIES_IDS}

InitClient ==
    /\ command = "run-all"
    /\ api_key \in BOOLEAN
    /\ no_network \in BOOLEAN
    /\ cache \in ClientCacheStates
    /\ pc = "client_init"
    /\ idx = 1
    /\ series_data = EmptyMap
    /\ requests = <<>>
    /\ error = NoError
    /\ warnings = {}
    /\ merged = <<>>
    /\ transformed = <<>>
    /\ analysis_df = <<>>
    /\ artifacts = {}
    /\ results = EmptyMap
    /\ stat_results = EmptyMap
    /\ exit_code = -1
    /\ call = NoCall

\* client.get_series(s, force_refresh), the idx-th call of the caller
CallGetSeries ==
    /\ pc = "client_ready"
    /\ idx <= MaxCalls
    /\ \E s \in SERIES_IDS, force_refresh \in BOOLEAN :
         \E resp \in Responses(s) :
           LET o == get_series(cache, no_network, requests, s,
                               force_refresh, resp)
           IN  /\ cache' = o.cache
               /\ requests' = o.requests
               /\ call' = CallOf(s, force_refresh, o)
               /\ error' = o.err
    /\ idx' = idx + 1
    /\ UNCHANGED <<env, pc, series_data, warnings, merged, transformed,
                   analysis_df, artifacts, results, stat_results, exit_code>>

NextClient ==
    \/ ClientInit
    \/ CallGetSeries

SpecClient == InitClient /\ [][NextClient]_vars

-----------------------------------------------------------------------------
(* run_stationarity_tests: the loop over the three key variables.  The     *)
(* p-values come out of the statistics library (adfuller, kpss); the model *)
(* lets each be any value of a grid around the 5% level, or NaN.           *)

\* a < b on floats: false when either is NaN
Lt(a, b) ==
    IF IsNaN(a) \/ IsNaN(b) THEN FALSE
    ELSE IF IsInf(a) THEN Sign(a) < 0 /\ a # b
    ELSE IF IsInf(b) THEN Sign(b) > 0
    ELSE a.n * b.d < b.n * a.d

Gt(a, b) == Lt(b, a)

\* the significance level 0.05
Alpha == Rat(5, 100)

PValues == {NaN} \cup {Rat(j, 100) : j \in {1, 4, 5, 6, 10}}

StatVariables == <<"prod_yoy_pct", "d_profit_share_yoy_pp",
                   "d_wage_share_yoy_pp">>

\* the verdict with the 5% level included on both sides
IsStationaryInclusive(adf_pvalue, kpss_pvalue) ==
    ~Gt(adf_pvalue, Alpha) /\ ~Lt(kpss_pvalue, Alpha)

\* bool((adf_pvalue < 0.05) and (kpss_pvalue > 0.05))
IsStationary(adf_pvalue, kpss_pvalue) ==
    Lt(adf_pvalue, Alpha) /\ Gt(kpss_pvalue, Alpha)

StationarityResult(var, adf_pvalue, kpss_pvalue) ==
    [variable |-> var, adf_pvalue |-> adf_pvalue, kpss_pvalue |-> kpss_pvalue,
     is_stationary |-> IsStationary(adf_pvalue, kpss_pvalue)]

BaseAnalysis ==
    AnalysisOf(compute_transformations(
        merge_series([s \in SERIES_IDS |-> SampleTable(s, 1)])))

InitStat ==
    /\ command = "none"
    /\ api_key = FALSE
    /\ no_network = TRUE
    /\ cache = EmptyMap
    /\ pc = "stat_tests"
    /\ idx = 1
    /\ series_data = EmptyMap
    /\ requests = <<>>
    /\ error = NoError
    /\ warnings = {}
    /\ merged = <<>>
    /\ transformed = <<>>
    /\ analysis_df = BaseAnalysis
    /\ artifacts = {}
    /\ results = EmptyMap
    /\ stat_results = EmptyMap
    /\ exit_code = -1
    /\ call = NoCall

\* one iteration of the loop of run_stationarity_tests
RunStationarityTest ==
    /\ pc = "stat_tests"
    /\ \E adf_pvalue \in PValues, kpss_pvalue \in PValues :
         stat_results' =
             WriteFile(stat_results, StatVariables[idx],
                       StationarityResult(StatVariables[idx],
                                          adf_pvalue, kpss_pvalue))
    /\ IF idx = Len(StatVariables)
       THEN pc' = "stat_done" /\ idx' = 1
       ELSE pc' = pc /\ idx' = idx + 1
    /\ UNCHANGED <<env, cache, series_data, requests, error, warnings,
                   merged, transformed, analysis_df, artifacts, results,
                   exit_code, call>>

NextStat == RunStationarityTest

SpecStat == InitStat /\ [][NextStat]_vars

-----------------------------------------------------------------------------
(* The validation loop of build_analysis_dataset on its own, over series   *)
(* of every kind validate_series tells apart, followed by the merge.       *)

\* the day spacings of the evenly spaced tables: 91 and both sides of the
\* tolerance around it
SpacingGaps == {80, 81, 91, 101, 102}

\* series s with n observations gap days apart
SpacedTable(s, n, gap) ==
    MkTable(s, [i \in 1..n |-> <<gap * (i - 1), Num(BaseValue(s, i))>>])

\* series s with n quarterly observations, the last one 300 days late
OutlierTable(s, n) ==
    MkTable(s, [i \in 1..n |->
                   <<IF i = n THEN DateOf(i) + 300 ELSE DateOf(i),
                     Num(BaseValue(s, i))>>])

ValidationKinds ==
    {[kind |-> k, gap |-> 0] : k \in {"empty", "allnan", "single", "outlier"}}
        \cup {[kind |-> "spaced", gap |-> g] : g \in SpacingGaps}

ValidationTable(s, v) ==
    CASE v.kind = "empty"   -> <<>>
      [] v.kind = "allnan"  -> SampleTable(s, 2)
      [] v.kind = "single"  -> SeriesTable(s, 1, {})
      [] v.kind = "outlier" -> OutlierTable(s, MaxRows)
      [] v.kind = "spaced"  -> SpacedTable(s, MaxRows, v.gap)

InitValidate ==
    /\ command = "run-all"
    /\ api_key = FALSE
    /\ no_network = TRUE
    /\ \E v \in [SERIES_IDS -> ValidationKinds] :
         /\ series_data = [s \in SERIES_IDS |-> ValidationTable(s, v[s])]
         /\ cache = [s \in SERIES_IDS |-> ToCsv(series_data[s], s)]
    /\ pc = "validate"
    /\ idx = 1
    /\ requests = <<>>
    /\ error = NoError
    /\ warnings = {}
    /\ merged = <<>>
    /\ transformed = <<>>
    /\ analysis_df = <<>>
    /\ artifacts = {}
    /\ results = EmptyMap
    /\ stat_results = EmptyMap
    /\ exit_code = -1
    /\ call = NoCall

NextValidate ==
    \/ ValidateSeries
    \/ MergeSeries

SpecValidate == InitValidate /\ [][NextValidate]_vars

-----------------------------------------------------------------------------
(* The run from the merge to its end, over validated series of every date  *)
(* spacing: what the frequency of the input does to the processed dataset. *)

InitCadence ==
    /\ command = "run-all"
    /\ api_key = FALSE
    /\ no_network = TRUE
    /\ \E v \in [SERIES_IDS -> ValidationKinds] :
         /\ series_data = [s \in SERIES_IDS |-> ValidationTable(s, v[s])]
         /\ Validated(series_data)
         /\ cache = [s \in SERIES_IDS |-> ToCsv(series_data[s], s)]
         /\ warnings = {s \in SERIES_IDS :
                            validate_series(series_data[s], s) = "warn"}
    /\ pc = "merge"
    /\ idx = 1
    /\ requests = <<>>
    /\ error = NoError
    /\ merged = <<>>
    /\ transformed = <<>>
    /\ analysis_df = <<>>
    /\ artifacts = {}
    /\ results = EmptyMap
    /\ stat_results = EmptyMap
    /\ exit_code = -1
    /\ call = NoCall

NextCadence ==
    \/ MergeSeries
    \/ ComputeTransformations
    \/ WriteDataset
    \/ RunRegressions
    \/ ExportResults
    \/ CreateAllPlots
    \/ Complete

SpecCadence == InitCadence /\ [][NextCadence]_vars

-----------------------------------------------------------------------------
(* Properties *)

\* the state is one in which compute_transformations has run
Transformed == pc \in {"select", "regress"}

\* C1 (SpecClient): in cache-only mode get_series never sends a request to
\* the remote service, whatever the series, the cache and force_refresh: it
\* returns the table of the cache file of the series when there is one, and
\* otherwise raises the cache-miss error naming the series.
C1_CacheOnlyNeverFetches ==
    (no_network /\ call.series # "none") =>
        /\ requests = <<>>
        /\ IF call.series \in DOMAIN cache
           THEN /\ call.err.kind = "none"
                /\ Len(call.df) = Len(cache[call.series])
                /\ \A i \in 1..Len(call.df) :
                     LET row  == call.df[i]
                         line == cache[call.series][i]
                     IN  /\ row["date"] = line.date
                         /\ IF line.field.k = "blank"
                            THEN row[call.series].k = "nan"
                            ELSE row[call.series] = line.field
           ELSE /\ call.err = [kind |-> "CacheMiss", series |-> call.series]
                /\ call.df = <<>>

\* a forced refresh in cache-only mode of a series that has no cache file,
\* while other series have one
C1_Witness ==
    /\ no_network
    /\ call.force_refresh
    /\ call.series \in SERIES_IDS
    /\ call.series \notin DOMAIN cache
    /\ DOMAIN cache # {}
    /\ call.err.kind = "CacheMiss"

\* C2 (Spec): with network access requested and no API credential, the
\* construction of the client raises the configuration error for every
\* state of the cache, before any series is requested, loaded or validated
\* and before any artifact is written.
C2_MissingCredentialAborts ==
    (command = "run-all" /\ ~no_network /\ ~api_key
        /\ pc \notin {"start", "client_init"}) =>
        /\ pc = "aborted"
        /\ error = [kind |-> "ConfigError", series |-> "none"]
        /\ exit_code = 1
        /\ requests = <<>>
        /\ call.series = "none"
        /\ DOMAIN series_data = {}
        /\ warnings = {}
        /\ artifacts = {}
        /\ merged = <<>>

\* the configuration error with all four series already cached
C2_Witness ==
    /\ pc = "aborted"
    /\ error.kind = "ConfigError"
    /\ DOMAIN cache = SERIES_IDS
    /\ \A s \in SERIES_IDS : cache[s] # <<>>

\* C3 (SpecData): the analysis dataset has exactly the six output columns,
\* no missing value in any of them, dates in ascending order and the row
\* labels 0, 1, 2, ...
C3_AnalysisDatasetClean ==
    pc = "regress" =>
        /\ \A i \in 1..Len(analysis_df) :
             /\ DOMAIN analysis_df[i] =
                    {"index", "date", "prod_yoy_pct", "d_wage_share_yoy_pp",
                     "wage_share_pct", "d_profit_share_yoy_pp",
                     "profit_share_pct"}
             /\ analysis_df[i]["index"] = i - 1
             /\ \A c \in DOMAIN analysis_df[i] \ {"index", "date"} :
                    analysis_df[i][c].k # "nan"
        /\ \A i, j \in 1..Len(analysis_df) :
             i < j => analysis_df[i]["date"] < analysis_df[j]["date"]

\* a dataset with a row left, from a table in which a row that has its
\* year-ago row was dropped for a missing value
C3_Witness ==
    /\ pc = "regress"
    /\ Len(analysis_df) >= 1
    /\ \E i \in 5..Len(transformed) :
         \E c \in output_cols \ {"date"} : transformed[i][c].k = "nan"

\* C4 (SpecMerge): the merged table has one row per date of the union of
\* the date sets of the series, in strictly ascending order, and its column
\* for a series holds that series' value at the date, and a missing value
\* where the series has no row for the date (an observation without a value
\* is a missing value on both sides).
C4_MergeIsSortedOuterJoin ==
    pc = "transform" =>
        LET U == UNION {Dates(series_data[s]) : s \in SERIES_IDS}
        IN  /\ {merged[i]["date"] : i \in 1..Len(merged)} = U
            /\ Len(merged) = Cardinality(U)
            /\ \A i \in 1..Len(merged) : merged[i]["index"] = i - 1
            /\ \A i, j \in 1..Len(merged) :
                 i < j => merged[i]["date"] < merged[j]["date"]
            /\ \A i \in 1..Len(merged) : \A s \in SERIES_IDS :
                 LET rows == {j \in 1..Len(series_data[s]) :
                                 series_data[s][j]["date"] = merged[i]["date"]}
                 IN  IF rows = {}
                     THEN merged[i][s].k = "nan"
                     ELSE \A j \in rows : merged[i][s] = series_data[s][j][s]

\* two series each of which has a date the other lacks
C4_Witness ==
    /\ pc = "transform"
    /\ \E s1, s2 \in SERIES_IDS :
         /\ Dates(series_data[s1]) \ Dates(series_data[s2]) # {}
         /\ Dates(series_data[s2]) \ Dates(series_data[s1]) # {}
    /\ \E i \in 1..Len(merged) : \E s \in SERIES_IDS :
         /\ merged[i][s].k = "nan"
         /\ merged[i]["date"] \notin Dates(series_data[s])

\* C5 (SpecData): at row index i >= 4 each share delta is the share of the
\* row minus the share four rows earlier; at row index i < 4 both deltas
\* are missing.  (Position p of the table is row index p - 1.)
C5_ShareDeltas ==
    Transformed =>
        \A p \in 1..Len(transformed) :
            IF p > 4
            THEN /\ transformed[p]["d_profit_share_yoy_pp"] =
                        Sub(transformed[p]["profit_share_pct"],
                            transformed[p - 4]["profit_share_pct"])
                 /\ transformed[p]["d_wage_share_yoy_pp"] =
                        Sub(transformed[p]["wage_share_pct"],
                            transformed[p - 4]["wage_share_pct"])
            ELSE /\ transformed[p]["d_profit_share_yoy_pp"].k = "nan"
                 /\ transformed[p]["d_wage_share_yoy_pp"].k = "nan"

\* the base table: the shares 14 and 54 at row index 4 against 10 and 50 at
\* row index 0
C5_Witness ==
    /\ pc = "select"
    /\ Len(transformed) >= 5
    /\ transformed[5]["d_profit_share_yoy_pp"] = Num(4)
    /\ transformed[5]["d_wage_share_yoy_pp"] = Num(4)
    /\ transformed[4]["d_profit_share_yoy_pp"].k = "nan"
    /\ transformed[4]["profit_share_pct"] = Num(13)

\* every OPHNFB value of the merged table is present and positive
ValidOPHNFB ==
    \A p \in 1..Len(merged) :
        merged[p]["OPHNFB"].k = "fin" /\ merged[p]["OPHNFB"].n > 0

\* C6 (SpecData): on valid input prod_yoy_pct at row index i >= 4 is
\* 100 * (ln OPHNFB[i] - ln OPHNFB[i-4]), and is missing at row index i < 4.
C6_ProductivityGrowth ==
    (Transformed /\ ValidOPHNFB) =>
        \A p \in 1..Len(transformed) :
            IF p > 4
            THEN transformed[p]["prod_yoy_pct"] =
                     Mul(Num(100), Sub(Ln(merged[p]["OPHNFB"]),
                                       Ln(merged[p - 4]["OPHNFB"])))
            ELSE transformed[p]["prod_yoy_pct"].k = "nan"

\* OPHNFB 100, 101, 102, 103, 105: 100 * (ln 105 - ln 100) at row index 4
C6_Witness ==
    /\ pc = "select"
    /\ ValidOPHNFB
    /\ Len(transformed) >= 5
    /\ merged[1]["OPHNFB"] = Num(100)
    /\ merged[5]["OPHNFB"] = Num(105)
    /\ transformed[5]["prod_yoy_pct"] = Rat(4654 - 4605, 10)

\* q is the quotient 100 * a / g of finite a and g # 0
IsPercentOf(q, a, g) ==
    /\ q.k = "fin"
    /\ q.n * a.d * g.n = 100 * a.n * g.d * q.d

\* C7 (SpecData): in every row with a non-zero GDP the shares are
\* 100 * CPROFIT / GDP and 100 * COE / GDP of that row: missing when an
\* operand is missing, the exact quotient otherwise (10 for 100 over 1000,
\* 14 for 140 over 1000, 50 for 500 over 1000).
C7_Shares ==
    Transformed =>
        \A p \in 1..Len(transformed) :
            LET r == transformed[p]
                Ok(q, a) ==
                    /\ (a.k = "nan" \/ r["GDP"].k = "nan") => q.k = "nan"
                    /\ (a.k = "fin" /\ r["GDP"].k = "fin")
                           => IsPercentOf(q, a, r["GDP"])
            IN  r["GDP"] # Num(0) =>
                    /\ Ok(r["profit_share_pct"], r["CPROFIT"])
                    /\ Ok(r["wage_share_pct"], r["COE"])
                    /\ (r["CPROFIT"] = Num(100) /\ r["GDP"] = Num(1000))
                           => r["profit_share_pct"] = Num(10)
                    /\ (r["CPROFIT"] = Num(140) /\ r["GDP"] = Num(1000))
                           => r["profit_share_pct"] = Num(14)
                    /\ (r["COE"] = Num(500) /\ r["GDP"] = Num(1000))
                           => r["wage_share_pct"] = Num(50)

\* the three examples in one table
C7_Witness ==
    /\ pc = "select"
    /\ Len(transformed) >= 5
    /\ transformed[1]["CPROFIT"] = Num(100)
    /\ transformed[1]["COE"] = Num(500)
    /\ transformed[5]["CPROFIT"] = Num(140)
    /\ \A p \in {1, 5} : transformed[p]["GDP"] = Num(1000)
    /\ transformed[1]["profit_share_pct"] = Num(10)
    /\ transformed[1]["wage_share_pct"] = Num(50)
    /\ transformed[5]["profit_share_pct"] = Num(14)

\* C8 (SpecData): a row whose GDP is zero gets missing shares, and neither
\* that row nor the row four rows later is in the analysis dataset.
C8_ZeroGdpRowIsDropped ==
    Transformed =>
        \A p \in 1..Len(transformed) :
            transformed[p]["GDP"] = Num(0) =>
                /\ transformed[p]["profit_share_pct"].k = "nan"
                /\ transformed[p]["wage_share_pct"].k = "nan"
                /\ pc = "regress" =>
                     \A j \in 1..Len(analysis_df) :
                         /\ analysis_df[j]["date"] # transformed[p]["date"]
                         /\ p + 4 <= Len(transformed) =>
                              analysis_df[j]["date"]
                                  # transformed[p + 4]["date"]

\* C9 (SpecStat): the stored verdict of every tested variable is true
\* exactly when the ADF p-value is below 0.05 and the KPSS p-value is above
\* 0.05; a p-value of exactly 0.05 in either test gives false.
C9_Verdict ==
    \A v \in DOMAIN stat_results :
        LET r == stat_results[v]
            a == r.adf_pvalue
            b == r.kpss_pvalue
        IN  /\ r.variable = v
            /\ r.is_stationary <=>
                   /\ a.k = "fin" /\ 100 * a.n < 5 * a.d
                   /\ b.k = "fin" /\ 100 * b.n > 5 * b.d

\* one variable found stationary, one with an ADF p-value of exactly 0.05,
\* one on which the two tests disagree
C9_Witness ==
    /\ pc = "stat_done"
    /\ stat_results["prod_yoy_pct"].adf_pvalue = Rat(1, 100)
    /\ stat_results["prod_yoy_pct"].kpss_pvalue = Rat(10, 100)
    /\ stat_results["prod_yoy_pct"].is_stationary
    /\ stat_results["d_profit_share_yoy_pp"].adf_pvalue = Rat(5, 100)
    /\ stat_results["d_profit_share_yoy_pp"].kpss_pvalue = Rat(10, 100)
    /\ ~stat_results["d_profit_share_yoy_pp"].is_stationary
    /\ stat_results["d_wage_share_yoy_pp"].adf_pvalue = Rat(1, 100)
    /\ stat_results["d_wage_share_yoy_pp"].kpss_pvalue = Rat(1, 100)
    /\ ~stat_results["d_wage_share_yoy_pp"].is_stationary

SeriesFailures == {"CacheMiss", "FetchError", "EmptySeries", "AllMissing"}

LaterStages == {"merge", "transform", "select", "regress", "export",
                "plots", "complete"}

\* C10 (Spec): once obtaining or validating a series has failed the run is
\* aborted with nothing merged, transformed, regressed or written; and a
\* run gets to the merge, or writes an artifact, only with all four series
\* obtained, none of them empty or entirely missing.
C10_SeriesFailureAborts ==
    /\ error.kind \in SeriesFailures =>
           /\ pc = "aborted"
           /\ exit_code = 1
           /\ artifacts = {}
           /\ merged = <<>> /\ transformed = <<>> /\ analysis_df = <<>>
           /\ DOMAIN results = {}
    /\ (pc \in LaterStages \/ artifacts # {}) =>
           /\ error.kind \in {"none", "LibraryError"}
           /\ \A s \in SERIES_IDS :
                /\ s \in DOMAIN series_data
                /\ \E i \in 1..Len(series_data[s]) :
                       series_data[s][i][s].k # "nan"

\* the last series, fetched from the remote service, fails validation
C10_Witness ==
    /\ pc = "aborted"
    /\ error = [kind |-> "AllMissing", series |-> "COE"]
    /\ Len(requests) >= 1
    /\ requests[Len(requests)] = "COE"
    /\ DOMAIN series_data = SERIES_IDS

\* the files export_stationarity_results writes
StationarityFiles == {"stationarity_tests.json", "stationarity_tests.csv"}

\* C11 (Spec): when a run of run-all reports completion (exit status 0),
\* the stationarity tests have been run on the three key variables and the
\* stationarity summary has been written alongside the regression summary.
C11_StationarityBeforeCompletion ==
    (pc = "exited" /\ exit_code = 0) =>
        /\ RegressionFiles \subseteq artifacts
        /\ DOMAIN stat_results = {"prod_yoy_pct", "d_profit_share_yoy_pp",
                                   "d_wage_share_yoy_pp"}
        /\ StationarityFiles \subseteq artifacts

\* the series the validation loop has passed
PassedValidation ==
    IF pc \in {"merge", "transform"} THEN SERIES_IDS
    ELSE {SeriesOrder[j] : j \in 1..(idx - 1)}

\* every value of the column of series s is missing
AllValuesMissing(s) ==
    \A i \in 1..Len(series_data[s]) : series_data[s][i][s].k = "nan"

\* twice the median spacing of series s differs from 2 * 91 days by more
\* than 2 * 10 days
OffCadence(s) ==
    /\ Len(series_data[s]) >= 2
    /\ LET m2 == Median2(DateDiffs(series_data[s]))
       IN  m2 - 182 > 20 \/ 182 - m2 > 20

\* C12 (SpecValidate): validate_series aborts the run with an error naming
\* the series when its table is empty or all its values are missing; a
\* series that passes these two checks never aborts the run, gets a warning
\* exactly when its median date spacing differs from 91 days by more than
\* 10 days, and the pipeline goes on to the merge with it.
C12_ValidationOutcomes ==
    /\ \A s \in PassedValidation :
         /\ series_data[s] # <<>>
         /\ ~AllValuesMissing(s)
         /\ s \in warnings <=> OffCadence(s)
    /\ warnings \subseteq PassedValidation
    /\ pc = "aborted" =>
         /\ error.series = SeriesOrder[idx]
         /\ error.kind = (IF series_data[error.series] = <<>>
                          THEN "EmptySeries" ELSE "AllMissing")
         /\ series_data[error.series] = <<>> \/ AllValuesMissing(error.series)
         /\ merged = <<>>
    /\ pc \in {"validate", "merge", "transform"} => error.kind = "none"

\* the merge reached with a warning for a series 102 days apart and none
\* for a series 101 days apart, one with a late last date, and one with a
\* single observation
C12_Witness ==
    /\ pc = "transform"
    /\ merged # <<>>
    /\ \E s1, s2, s3, s4 \in SERIES_IDS :
         /\ series_data[s1] = SpacedTable(s1, MaxRows, 102) /\ s1 \in warnings
         /\ series_data[s2] = SpacedTable(s2, MaxRows, 101) /\ s2 \notin warnings
         /\ series_data[s3] = OutlierTable(s3, MaxRows) /\ s3 \notin warnings
         /\ Len(series_data[s4]) = 1 /\ s4 \notin warnings

\* the run has completed and written the processed dataset
CompletedRun ==
    pc = "exited" /\ exit_code = 0 /\ "dshares_vs_prod.csv" \in artifacts

EvenlySpaced(n, g) ==
    \A s \in SERIES_IDS :
        /\ Len(series_data[s]) = n
        /\ \A i \in 1..n :
             /\ series_data[s][i]["date"] = g * (i - 1)
             /\ series_data[s][i][s].k = "fin"
             /\ series_data[s][i][s].n > 0

IsCall == pc = "client_ready" /\ idx' = idx + 1

\* C14 (SpecClient): with the network enabled, a get_series call without
\* force_refresh for a series that has a cache file returns the table of
\* the file and sends no request; for a series without one it sends one
\* request and, when that succeeds, writes the fetched table to the cache
\* file of the series and returns it.  No call removes a cache file, so
\* every later call without force_refresh is served from the cache.
C14_ReadThroughCache ==
    [][(IsCall /\ ~no_network) =>
          LET s == call'.series
          IN  /\ DOMAIN cache \subseteq DOMAIN cache'
              /\ \A x \in DOMAIN cache \ {s} : cache'[x] = cache[x]
              /\ ~call'.force_refresh =>
                   IF s \in DOMAIN cache
                   THEN /\ requests' = requests
                        /\ cache' = cache
                        /\ call'.err.kind = "none"
                        /\ call'.df = ReadCsv(cache[s], s)
                   ELSE /\ requests' = Append(requests, s)
                        /\ IF call'.err.kind = "none"
                           THEN /\ DOMAIN cache' = DOMAIN cache \cup {s}
                                /\ ReadCsv(cache'[s], s) = call'.df
                                /\ call'.df # <<>>
                           ELSE /\ cache' = cache
                                /\ call'.err =
                                     [kind |-> "FetchError", series |-> s]]_vars

\* two calls for the same series from an empty cache: one request, and the
\* second call, without force_refresh, served the table the first one wrote
C14_Witness ==
    /\ ~no_network
    /\ idx = 3
    /\ call.series = "GDP"
    /\ ~call.force_refresh
    /\ call.err.kind = "none"
    /\ requests = <<"GDP">>
    /\ DOMAIN cache = {"GDP"}
    /\ call.df = ReadCsv(cache["GDP"], "GDP")
    /\ call.df = SampleTable("GDP", 3)

C16_TwoRegressions ==
    /\ DOMAIN results # {} =>
         /\ DOMAIN results = {"profit", "wage"}
         /\ results["profit"].dependent_var = "d_profit_share_yoy_pp"
         /\ results["wage"].dependent_var = "d_wage_share_yoy_pp"
         /\ results["profit"].x = results["wage"].x
         /\ \A key \in {"profit", "wage"} :
              LET r == results[key]
              IN  /\ r.n_obs = Len(analysis_df)
                  /\ r.maxlags = 4
                  /\ Len(r.x) = Len(analysis_df)
                  /\ Len(r.y) = Len(analysis_df)
                  /\ \A i \in 1..Len(analysis_df) :
                       /\ r.x[i] = analysis_df[i]["prod_yoy_pct"]
                       /\ r.y[i] = analysis_df[i][r.dependent_var]
    /\ pc = "regress" =>
         \A m \in 0..5 :
             /\ run_regressions(analysis_df, m)["profit"].maxlags = m
             /\ run_regressions(analysis_df, m)["wage"].maxlags = m
             /\ run_regressions(analysis_df, m)["wage"].dependent_var
                    = "d_wage_share_yoy_pp"

\* the two results of a run on the base tables
C16_Witness ==
    /\ pc = "export"
    /\ Len(analysis_df) >= 2
    /\ results["profit"].n_obs = Len(analysis_df)
    /\ results["wage"].n_obs = Len(analysis_df)
    /\ results["profit"].x[1] = Rat(49, 10)
    /\ results["wage"].y[1] = Num(4)
    /\ results["profit"].dependent_var # results["wage"].dependent_var

RawCols == {"index", "date"} \cup SERIES_IDS

PosOf(s) == CHOOSE j \in 1..Len(SeriesOrder) : SeriesOrder[j] = s

\* the request log holds every series at most once, in the fixed order
RequestsInOrderOnce ==
    \A i, j \in 1..Len(requests) :
        i < j => PosOf(requests[i]) < PosOf(requests[j])

\* C18 (Spec): with the network enabled a get_series call sends at most
\* one request, for its own series; no series is requested twice; when the
\* request fails the run is aborted by that error, the cache is left as it
\* was, with no file for that series, and no series after it in the order
\* OPHNFB, GDP, CPROFIT, COE is requested or loaded.
C18_NoRetry ==
    /\ [](/\ RequestsInOrderOnce
          /\ error.kind = "FetchError" =>
               /\ ~no_network
               /\ pc = "aborted"
               /\ exit_code = 1
               /\ error.series = SeriesOrder[idx]
               /\ requests # <<>>
               /\ requests[Len(requests)] = error.series
               /\ error.series \notin DOMAIN cache
               /\ DOMAIN series_data = {SeriesOrder[j] : j \in 1..(idx - 1)}
               /\ call.series = error.series)
    /\ [][(pc = "client_ready" /\ ~no_network) =>
             /\ \/ requests' = requests
                \/ requests' = Append(requests, SeriesOrder[idx])
             /\ call'.err.kind # "none" =>
                  /\ call'.err = [kind |-> "FetchError",
                                  series |-> SeriesOrder[idx]]
                  /\ requests' = Append(requests, SeriesOrder[idx])
                  /\ cache' = cache
                  /\ error' = call'.err
                  /\ pc' = "aborted"]_vars

\* OPHNFB fetched, GDP served from the cache, the request for CPROFIT
\* failed: COE was neither requested nor loaded
C18_Witness ==
    /\ pc = "aborted"
    /\ error = [kind |-> "FetchError", series |-> "CPROFIT"]
    /\ requests = <<"OPHNFB", "CPROFIT">>
    /\ DOMAIN series_data = {"OPHNFB", "GDP"}
    /\ "OPHNFB" \in DOMAIN cache
    /\ "CPROFIT" \notin DOMAIN cache

\* the table T of series s fails one of the two fatal checks of
\* validate_series
FailsValidation(T, s) ==
    \/ T = <<>>
    \/ \A i \in 1..Len(T) : T[i][s].k = "nan"

\* the series requested from the remote service in this run
Requested == {requests[i] : i \in 1..Len(requests)}

\* C19, as stated (Spec): when the run has ended, every series table it
\* fetched and stored in the cache passes the fatal checks of
\* validate_series.
C19_CacheHoldsValidatedSeries ==
    pc \in {"aborted", "exited"} =>
        \A s \in Requested \cap DOMAIN cache :
            ~FailsValidation(ReadCsv(cache[s], s), s)

\* C19, amended (Spec): a series is written to the cache as fetched, before
\* it is validated.  When validation aborts the run, the failing table is
\* the one in the cache file of the series, fetched by this run or found
\* there; and a table that fails the fatal checks, wherever it came from,
\* never gets to the merge.
C19_FailingSeriesStaysCached ==
    /\ error.kind \in {"EmptySeries", "AllMissing"} =>
         /\ pc = "aborted"
         /\ error.series \in DOMAIN cache
         /\ FailsValidation(ReadCsv(cache[error.series], error.series),
                            error.series)
         /\ ReadCsv(cache[error.series], error.series)
                = series_data[error.series]
    /\ \A s \in Requested \cap DOMAIN series_data :
         /\ s \in DOMAIN cache
         /\ ReadCsv(cache[s], s) = series_data[s]
    /\ \A s \in DOMAIN series_data :
         FailsValidation(series_data[s], s) =>
             /\ pc \in {"client_ready", "validate", "aborted"}
             /\ merged = <<>>
             /\ artifacts = {}

\* a series fetched in this run, all its values missing: validation has
\* aborted the run and the table is in the cache
C19_Witness ==
    /\ pc = "aborted"
    /\ error.kind = "AllMissing"
    /\ error.series \in Requested
    /\ error.series \in DOMAIN cache
    /\ cache[error.series] = ToCsv(SampleTable(error.series, 2), error.series)

\* the four raw values of merged row p are present
CompleteRow(p) == \A s \in SERIES_IDS : merged[p][s].k # "nan"

\* where present, OPHNFB of merged row p is positive and GDP is not zero
UsableRow(p) ==
    /\ merged[p]["OPHNFB"].k = "nan"
         \/ (merged[p]["OPHNFB"].k = "fin" /\ merged[p]["OPHNFB"].n > 0)
    /\ merged[p]["GDP"].k = "nan"
         \/ (merged[p]["GDP"].k = "fin" /\ merged[p]["GDP"].n # 0)

\* 100 * a / g
PctOf(a, g) == Div(Mul(Num(100), a), g)

\* C20 (SpecData): lags are positions in the merged table.  A merged row at
\* row index i (position p = i + 1), with positive OPHNFB and non-zero GDP
\* where present at rows i and i-4, is in the analysis dataset exactly when
\* i >= 4 and the four raw values are present both at row i and at row i-4;
\* its year-over-year values are those of merged rows i and i-4, whatever
\* rows were dropped in between; the rows kept are in the order of their
\* dates.
C20_LagsArePositionsInMerged ==
    pc = "regress" =>
        /\ \A p \in 1..Len(merged) :
             (UsableRow(p) /\ (p > 4 => UsableRow(p - 4))) =>
                LET kept == {j \in 1..Len(analysis_df) :
                                analysis_df[j]["date"] = merged[p]["date"]}
                IN  /\ kept # {} <=>
                           (p > 4 /\ CompleteRow(p) /\ CompleteRow(p - 4))
                    /\ Cardinality(kept) <= 1
                    /\ \A j \in kept :
                         LET r == analysis_df[j]
                             a == merged[p]
                             b == merged[p - 4]
                         IN  /\ r["prod_yoy_pct"] =
                                    Mul(Num(100), Sub(Ln(a["OPHNFB"]),
                                                      Ln(b["OPHNFB"])))
                             /\ r["profit_share_pct"] =
                                    PctOf(a["CPROFIT"], a["GDP"])
                             /\ r["wage_share_pct"] = PctOf(a["COE"], a["GDP"])
                             /\ r["d_profit_share_yoy_pp"] =
                                    Sub(PctOf(a["CPROFIT"], a["GDP"]),
                                        PctOf(b["CPROFIT"], b["GDP"]))
                             /\ r["d_wage_share_yoy_pp"] =
                                    Sub(PctOf(a["COE"], a["GDP"]),
                                        PctOf(b["COE"], b["GDP"]))
        /\ \A j, k \in 1..Len(analysis_df) :
             j < k => analysis_df[j]["date"] < analysis_df[k]["date"]

\* six merged rows, a raw value missing at row index 2: rows 4 and 5 are
\* kept, with the values of rows 0 and 1 as their year-ago values
C20_Witness ==
    /\ pc = "regress"
    /\ Len(merged) = 6
    /\ \A p \in 1..6 : UsableRow(p)
    /\ ~CompleteRow(3)
    /\ \A p \in {1, 2, 5, 6} : CompleteRow(p)
    /\ Len(analysis_df) = 2
    /\ analysis_df[1]["date"] = merged[5]["date"]
    /\ analysis_df[2]["date"] = merged[6]["date"]
    /\ analysis_df[2]["d_profit_share_yoy_pp"] = Num(4)

====
